---------------------------- MODULE Spec2Model ----------------------------
(***************************************************************************)
(* Model of test-support/helpers/a11y/helpers/color-contrast.js: the hex   *)
(* decoder toRGB.hex, normalizeColor, relativeLuminance, contrastRatio and *)
(* the entry point checkTextContrast.                                      *)
(*                                                                         *)
(* A JavaScript string is the sequence of its UTF-16 code units.           *)
(* A JavaScript number is an IEEE 754 double: a record of a sign, a        *)
(* significand and an exponent, or NaN, or a signed Infinity.  Every       *)
(* operation rounds its exact result to the nearest double, ties to even;  *)
(* significands are numerals in radix 2^15, so that every step of the      *)
(* arithmetic stays within 32-bit integers.                                *)
(***************************************************************************)
EXTENDS Integers, Sequences, FiniteSets

VARIABLES app, text, background, pc, ratio, lb, f1, f2, r1, r2

vars == <<app, text, background, pc, ratio, lb, f1, f2, r1, r2>>

---------------------------------------------------------------------------
(* Natural numbers of any size: the limbs of a numeral in radix Base, the *)
(* least significant first, with no zero limb at the top; <<>> is zero.    *)

Base == 32768

LimbWidth == 15

Rest(a) == IF a = <<>> THEN <<>> ELSE Tail(a)

LimbAt(a, i) == IF i <= Len(a) THEN a[i] ELSE 0

Max(a, b) == IF a < b THEN b ELSE a

Min(a, b) == IF a < b THEN a ELSE b

RECURSIVE BigTrim(_)
BigTrim(a) ==
  IF a # <<>> /\ a[Len(a)] = 0 THEN BigTrim(SubSeq(a, 1, Len(a) - 1)) ELSE a

RECURSIVE BigFromInt(_)
BigFromInt(n) ==
  IF n = 0 THEN <<>> ELSE <<n % Base>> \o BigFromInt(n \div Base)

\* a + b + c for a carry c
RECURSIVE BigAdd(_, _, _)
BigAdd(a, b, c) ==
  IF b = <<>> /\ c = 0 THEN a
  ELSE IF a = <<>> /\ b = <<>> THEN <<c>>
  ELSE <<(LimbAt(a, 1) + LimbAt(b, 1) + c) % Base>>
         \o BigAdd(Rest(a), Rest(b), (LimbAt(a, 1) + LimbAt(b, 1) + c) \div Base)

\* a - b - c for a borrow c and a >= b + c; the top may hold zero limbs.
RECURSIVE BigSub(_, _, _)
BigSub(a, b, c) ==
  IF b = <<>> /\ c = 0 THEN a
  ELSE IF a[1] < LimbAt(b, 1) + c
       THEN <<a[1] + Base - LimbAt(b, 1) - c>> \o BigSub(Tail(a), Rest(b), 1)
       ELSE <<a[1] - LimbAt(b, 1) - c>> \o BigSub(Tail(a), Rest(b), 0)

\* a < b from limb i down, the limbs above being equal.
RECURSIVE LessFrom(_, _, _)
LessFrom(a, b, i) ==
  IF i = 0 THEN FALSE
  ELSE IF a[i] # b[i] THEN a[i] < b[i]
  ELSE LessFrom(a, b, i - 1)

BigLess(a, b) ==
  IF Len(a) # Len(b) THEN Len(a) < Len(b) ELSE LessFrom(a, b, Len(a))

\* a * k + c for one limb k and a carry c
RECURSIVE BigMulSmall(_, _, _)
BigMulSmall(a, k, c) ==
  IF a = <<>> THEN (IF c = 0 THEN <<>> ELSE <<c>>)
  ELSE <<(a[1] * k + c) % Base>>
         \o BigMulSmall(Tail(a), k, (a[1] * k + c) \div Base)

\* a with n zero limbs below it
ShiftLimbs(a, n) == IF a = <<>> THEN <<>> ELSE [i \in 1..n |-> 0] \o a

RECURSIVE BigMul(_, _)
BigMul(a, b) ==
  IF a = <<>> \/ b = <<>> THEN <<>>
  ELSE BigAdd(IF b[1] = 0 THEN <<>> ELSE BigMulSmall(a, b[1], 0),
              ShiftLimbs(BigMul(a, Tail(b)), 1), 0)

\* a * 2^n
BigShl(a, n) ==
  ShiftLimbs(BigMulSmall(a, 2 ^ (n % LimbWidth), 0), n \div LimbWidth)

\* The quotient (its top may hold zero limbs) and the remainder of a by
\* one limb k > 0.
RECURSIVE DivSmall(_, _)
DivSmallStep(hi, limb, k) ==
  [q |-> <<(hi.r * Base + limb) \div k>> \o hi.q,
   r |-> (hi.r * Base + limb) % k]

DivSmall(a, k) ==
  IF a = <<>> THEN [q |-> <<>>, r |-> 0]
  ELSE DivSmallStep(DivSmall(Tail(a), k), a[1], k)

\* floor(a / 2^n), and whether a bit was lost.
ShrOf(low, d) ==
  [q |-> BigTrim(d.q), lost |-> d.r # 0 \/ \E i \in 1..Len(low) : low[i] # 0]

BigShr(a, n) ==
  ShrOf(SubSeq(a, 1, Min(n \div LimbWidth, Len(a))),
        DivSmall(SubSeq(a, Min(n \div LimbWidth, Len(a)) + 1, Len(a)),
                 2 ^ (n % LimbWidth)))

\* The number of bits of a limb, and of a.
RECURSIVE LimbBits(_)
LimbBits(x) == IF x = 0 THEN 0 ELSE 1 + LimbBits(x \div 2)

BitLen(a) ==
  IF a = <<>> THEN 0 ELSE LimbWidth * (Len(a) - 1) + LimbBits(a[Len(a)])

\* r * Base + limb
Push(r, limb) == IF r = <<>> /\ limb = 0 THEN <<>> ELSE <<limb>> \o r

\* q and r raised and lowered until r < d.
RECURSIVE Correct(_, _, _)
Correct(q, r, d) ==
  IF BigLess(r, d) THEN [q |-> q, r |-> r]
  ELSE Correct(q + 1, BigTrim(BigSub(r, d, 0)), d)

\* One limb of a quotient: r \div d for r < d * Base, the top limb of d
\* being at least Base / 2, from a guess that is never too large.
DivDigit(r, d, guess) ==
  IF guess = 0 THEN Correct(0, r, d)
  ELSE Correct(guess, BigTrim(BigSub(r, BigMulSmall(d, guess, 0), 0)), d)

Guess(r, d) ==
  (LimbAt(r, Len(d) + 1) * Base + LimbAt(r, Len(d))) \div (d[Len(d)] + 1)

LongDivLimb(hi, x) == [q |-> <<x.q>> \o hi.q, r |-> x.r]

LongDivStep(hi, r, d) == LongDivLimb(hi, DivDigit(r, d, Guess(r, d)))

RECURSIVE LongDiv(_, _)
LongDivNext(hi, limb, d) == LongDivStep(hi, Push(hi.r, limb), d)

LongDiv(n, d) ==
  IF n = <<>> THEN [q |-> <<>>, r |-> <<>>]
  ELSE LongDivNext(LongDiv(Tail(n), d), n[1], d)

\* floor(n / d) for d # 0, and whether the division left a remainder.
DivSmallOf(x) == [q |-> BigTrim(x.q), lost |-> x.r # 0]

LongDivOf(x) == [q |-> BigTrim(x.q), lost |-> x.r # <<>>]

BigDiv(n, d) ==
  IF Len(d) = 1 THEN DivSmallOf(DivSmall(n, d[1]))
  ELSE LongDivOf(LongDiv(BigShl(n, LimbWidth - LimbBits(d[Len(d)])),
                         BigShl(d, LimbWidth - LimbBits(d[Len(d)]))))

\* The number of zero limbs at the bottom of a # 0.
RECURSIVE LowZeros(_)
LowZeros(a) == IF a[1] # 0 THEN 0 ELSE 1 + LowZeros(Tail(a))

---------------------------------------------------------------------------
(* JavaScript numbers: IEEE 754 doubles.  A finite number is                *)
(* s * m * 2^e for a sign s, an exponent e >= MinExp and a significand m    *)
(* of Precision bits (fewer when e = MinExp: a subnormal; none for zero).   *)

Precision == 53

MinExp == -1074

MaxExp == 971

Abs(x) == IF x < 0 THEN -x ELSE x

NaN == [k |-> "NaN", s |-> 1, m |-> <<>>, e |-> 0]

Infinity(sign) == [k |-> "Infinity", s |-> sign, m |-> <<>>, e |-> 0]

Zero(sign) == [k |-> "num", s |-> sign, m |-> <<>>, e |-> 0]

IsNaN(x) == x.k = "NaN"

IsNum(x) == x.k = "num"

IsZero(x) == x.k = "num" /\ x.m = <<>>

\* The double of sign s, significand m and exponent e, m fitting.
Pack(s, m, e) ==
  IF m = <<>> THEN Zero(s)
  ELSE IF BitLen(m) > Precision
       THEN (IF e + 1 > MaxExp THEN Infinity(s)
             ELSE [k |-> "num", s |-> s, m |-> DivSmall(m, 2).q, e |-> e + 1])
  ELSE IF e > MaxExp THEN Infinity(s)
  ELSE [k |-> "num", s |-> s, m |-> m, e |-> e]

\* Round to nearest, ties to even: t holds one bit more than the
\* significand, lost tells whether a lower bit of the value is set.
RoundHalf(s, half, lost, e) ==
  Pack(s,
       IF half.r = 1 /\ (lost \/ LimbAt(half.q, 1) % 2 = 1)
       THEN BigAdd(BigTrim(half.q), <<>>, 1) ELSE BigTrim(half.q),
       e)

RoundShifted(s, t, lost, e) == RoundHalf(s, DivSmall(t.q, 2), t.lost \/ lost, e)

\* The double nearest to s * (m + f) * 2^e, for m # 0 and a fraction f
\* that is 0, or (lost) strictly between 0 and 1.
RoundAt(s, m, e, lost, shift) ==
  IF shift <= 0 THEN Pack(s, BigShl(m, -shift), e + shift)
  ELSE RoundShifted(s, BigShr(m, shift - 1), lost, e + shift)

Round(s, m, e, lost) ==
  RoundAt(s, m, e, lost, Max(BitLen(m) - Precision, MinExp - e))

\* The number an integer of the machine is.
Num(i) ==
  IF i = 0 THEN Zero(1)
  ELSE Round(IF i < 0 THEN -1 ELSE 1, BigFromInt(Abs(i)), 0, FALSE)

\* -x
NumNeg(x) == IF IsNaN(x) THEN NaN ELSE [x EXCEPT !.s = -x.s]

\* |x| < |y| on finite numbers
MagLess(x, y) ==
  IF y.m = <<>> THEN FALSE
  ELSE IF x.m = <<>> THEN TRUE
  ELSE IF x.e # y.e THEN x.e < y.e
  ELSE BigLess(x.m, y.m)

\* x < y on numbers; false when either is NaN, as in JavaScript.
NumLess(x, y) ==
  IF IsNaN(x) \/ IsNaN(y) THEN FALSE
  ELSE IF ~IsNum(x) THEN x.s < 0 /\ (IsNum(y) \/ y.s > 0)
  ELSE IF ~IsNum(y) THEN y.s > 0
  ELSE IF IsZero(x) /\ IsZero(y) THEN FALSE
  ELSE IF x.s # y.s THEN x.s < y.s
  ELSE IF x.s > 0 THEN MagLess(x, y)
  ELSE MagLess(y, x)

\* x * y
NumMul(x, y) ==
  IF IsNaN(x) \/ IsNaN(y) THEN NaN
  ELSE IF ~IsNum(x) \/ ~IsNum(y)
       THEN (IF IsZero(x) \/ IsZero(y) THEN NaN ELSE Infinity(x.s * y.s))
  ELSE IF IsZero(x) \/ IsZero(y) THEN Zero(x.s * y.s)
  ELSE Round(x.s * y.s, BigMul(x.m, y.m), x.e + y.e, FALSE)

\* The sum of two finite numbers that are not zero, as significands a and
\* b at a common exponent e.
AddAt(sa, a, sb, b, e) ==
  IF sa = sb THEN Round(sa, BigAdd(a, b, 0), e, FALSE)
  ELSE IF a = b THEN Zero(1)
  ELSE IF BigLess(a, b) THEN Round(sb, BigTrim(BigSub(b, a, 0)), e, FALSE)
  ELSE Round(sa, BigTrim(BigSub(a, b, 0)), e, FALSE)

\* x + y for finite x and y that are not zero, x.e >= y.e: past
\* Precision + 2 bits of distance y is less than a quarter of a unit in
\* the last place of x.
AddBy(x, y) ==
  IF x.e - y.e > Precision + 2 THEN x
  ELSE AddAt(x.s, BigShl(x.m, x.e - y.e), y.s, y.m, y.e)

\* x + y
NumAdd(x, y) ==
  IF IsNaN(x) \/ IsNaN(y) THEN NaN
  ELSE IF ~IsNum(x) THEN (IF ~IsNum(y) /\ y.s # x.s THEN NaN ELSE x)
  ELSE IF ~IsNum(y) THEN y
  ELSE IF IsZero(x) THEN (IF IsZero(y) /\ x.s # y.s THEN Zero(1) ELSE y)
  ELSE IF IsZero(y) THEN x
  ELSE IF x.e >= y.e THEN AddBy(x, y) ELSE AddBy(y, x)

\* x / y for finite x and y that are not zero: the quotient of the
\* significands, that of x widened to 2 * Precision + 7 bits, the zero
\* limbs at the bottom of y's taken from both.
DivAt(s, n, d, z, e) ==
  LET x == BigDiv(SubSeq(n, z + 1, Len(n)), SubSeq(d, z + 1, Len(d)))
  IN  Round(s, x.q, e, x.lost)

DivBy(x, y, widen) ==
  DivAt(x.s * y.s, BigShl(x.m, widen), y.m, LowZeros(y.m), x.e - widen - y.e)

\* x / y: NaN for 0/0 and Infinity/Infinity, a signed Infinity for any
\* other division by zero.
NumDiv(x, y) ==
  IF IsNaN(x) \/ IsNaN(y) THEN NaN
  ELSE IF ~IsNum(x) THEN (IF ~IsNum(y) THEN NaN ELSE Infinity(x.s * y.s))
  ELSE IF ~IsNum(y) THEN Zero(x.s * y.s)
  ELSE IF IsZero(y) THEN (IF IsZero(x) THEN NaN ELSE Infinity(x.s * y.s))
  ELSE IF IsZero(x) THEN Zero(x.s * y.s)
  ELSE DivBy(x, y, 2 * Precision + 7 - BitLen(x.m))

\* The double a decimal literal n/d of the source denotes.
Literal(n, d) == NumDiv(Num(n), Num(d))

\* Math.max and Math.min: NaN when either argument is NaN; +0 is larger
\* than -0.
MathMax(x, y) ==
  IF IsNaN(x) \/ IsNaN(y) THEN NaN
  ELSE IF NumLess(x, y) THEN y
  ELSE IF NumLess(y, x) THEN x
  ELSE IF x.s > 0 THEN x ELSE y

MathMin(x, y) ==
  IF IsNaN(x) \/ IsNaN(y) THEN NaN
  ELSE IF NumLess(y, x) THEN y
  ELSE IF NumLess(x, y) THEN x
  ELSE IF x.s < 0 THEN x ELSE y

---------------------------------------------------------------------------
(* JavaScript strings: String.prototype.substr and parseInt *)

\* The printable characters of ASCII from the space (code unit 32) to the
\* underscore (95), and from a (97) to the tilde (126).
AsciiUpper ==
  << " ", "!", "\"", "#", "$", "%", "&", "'", "(", ")", "*", "+",
     ",", "-", ".", "/", "0", "1", "2", "3", "4", "5", "6", "7",
     "8", "9", ":", ";", "<", "=", ">", "?", "@", "A", "B", "C",
     "D", "E", "F", "G", "H", "I", "J", "K", "L", "M", "N", "O",
     "P", "Q", "R", "S", "T", "U", "V", "W", "X", "Y", "Z", "[",
     "\\", "]", "^", "_" >>

AsciiLower ==
  << "a", "b", "c", "d", "e", "f", "g", "h", "i", "j", "k", "l",
     "m", "n", "o", "p", "q", "r", "s", "t", "u", "v", "w", "x",
     "y", "z", "{", "|", "}", "~" >>

\* The code unit of a printable ASCII character.
CharCode ==
  [ch \in {AsciiUpper[i] : i \in 1..Len(AsciiUpper)}
            \cup {AsciiLower[i] : i \in 1..Len(AsciiLower)} |->
     IF \E i \in 1..Len(AsciiUpper) : AsciiUpper[i] = ch
     THEN 31 + (CHOOSE i \in 1..Len(AsciiUpper) : AsciiUpper[i] = ch)
     ELSE 96 + (CHOOSE i \in 1..Len(AsciiLower) : AsciiLower[i] = ch)]

\* The string whose characters are those of s, as its code units.
Str(s) == [i \in 1..Len(s) |-> CharCode[s[i]]]

HexLower == <<"0", "1", "2", "3", "4", "5", "6", "7", "8", "9",
              "a", "b", "c", "d", "e", "f">>

HexUpper == <<"0", "1", "2", "3", "4", "5", "6", "7", "8", "9",
              "A", "B", "C", "D", "E", "F">>

\* The code units parseInt skips at the start of a string: the white space
\* (tab, vertical tab, form feed, space, no-break space, U+FEFF and the
\* space separators U+1680, U+2000 to U+200A, U+202F, U+205F, U+3000) and
\* the line terminators (line feed, carriage return, U+2028, U+2029).
WhiteSpaceChars ==
  {9, 10, 11, 12, 13, 32, 160, 5760, 8232, 8233, 8239, 8287, 12288, 65279}
    \cup 8192..8202

HexDigitChars ==
  {CharCode[HexLower[v]] : v \in 1..16}
    \cup {CharCode[HexUpper[v]] : v \in 1..16}

\* The value of each hexadecimal digit.
DigitValue ==
  [ch \in HexDigitChars |->
     (CHOOSE v \in 1..16 :
        CharCode[HexLower[v]] = ch \/ CharCode[HexUpper[v]] = ch) - 1]

\* Whether ch is a digit of the radix (radix <= 16).
IsDigit(ch, radix) == ch \in HexDigitChars /\ DigitValue[ch] < radix

\* s.substr(start, length) for start >= 0: at most length characters from
\* the 0-based index start, cut at the end of the string.
substr(s, start, length) == SubSeq(s, start + 1, Min(start + length, Len(s)))

RECURSIVE TrimStart(_)
TrimStart(s) ==
  IF s # <<>> /\ Head(s) \in WhiteSpaceChars THEN TrimStart(Tail(s)) ELSE s

\* The value of the longest prefix of s made of digits of the radix,
\* continuing from acc; seen tells whether a digit was read.
RECURSIVE ParseDigits(_, _, _, _)
ParseDigits(s, radix, acc, seen) ==
  IF s # <<>> /\ IsDigit(Head(s), radix)
  THEN ParseDigits(Tail(s), radix, acc * radix + DigitValue[Head(s)], TRUE)
  ELSE [value |-> acc, seen |-> seen]

\* parseInt that rejects a string holding anything but digits.
parseIntStrict(s, radix) ==
  IF s # <<>> /\ \A i \in 1..Len(s) : IsDigit(s[i], radix)
  THEN Num(ParseDigits(s, radix, 0, FALSE).value)
  ELSE NaN

\* The number read as p, negated when neg; NaN when no digit was read.
ParsedValue(p, neg) ==
  IF ~p.seen THEN NaN
  ELSE IF neg THEN NumNeg(Num(p.value)) ELSE Num(p.value)

\* u without the 0x or 0X that may start it (radix 16 only).
StripPrefix(u, radix) ==
  IF /\ radix = 16 /\ Len(u) >= 2 /\ u[1] = CharCode["0"]
     /\ u[2] \in {CharCode["x"], CharCode["X"]}
  THEN SubSeq(u, 3, Len(u)) ELSE u

\* t without the sign that may start it.
StripSign(t) ==
  IF t # <<>> /\ Head(t) \in {CharCode["+"], CharCode["-"]} THEN Tail(t) ELSE t

\* parseInt on a string t whose leading white space is gone.
ParseSigned(t, radix) ==
  ParsedValue(ParseDigits(StripPrefix(StripSign(t), radix), radix, 0, FALSE),
              t # <<>> /\ Head(t) = CharCode["-"])

\* parseInt(s, radix) for radix <= 16: leading white space is skipped, then
\* an optional sign, then (radix 16) an optional 0x or 0X; the longest run
\* of digits that follows is the value, and NaN when there is none.
parseInt(s, radix) == ParseSigned(TrimStart(s), radix)

---------------------------------------------------------------------------
(* color-contrast.js *)

\* The decimal literals of the source.
Offset == Literal(5, 100)

RedWeight == Literal(2126, 10000)

GreenWeight == Literal(7152, 10000)

BlueWeight == Literal(722, 10000)

ChannelMax == Num(255)

\* contrastRatio(l1, l2) with the operands of the division in the order
\* given, neither sorted.
contrastRatioUnsorted(l1, l2) ==
  NumDiv(NumAdd(l1, Offset), NumAdd(l2, Offset))

\* contrastRatio(l1, l2) with the offset on the numerator alone.
contrastRatioOffsetOnce(l1, l2) ==
  NumDiv(NumAdd(MathMax(l1, l2), Offset), MathMin(l1, l2))

contrastRatio(l1, l2) ==
  LET lighter     == MathMax(l1, l2)
      darker      == MathMin(l1, l2)
      numerator   == NumAdd(lighter, Offset)
      denominator == NumAdd(darker, Offset)
  IN  NumDiv(numerator, denominator)

relativeLuminance(rgb) ==
  LET rs == NumMul(RedWeight, rgb[1])
      gs == NumMul(GreenWeight, rgb[2])
      bs == NumMul(BlueWeight, rgb[3])
  IN  NumAdd(NumAdd(rs, gs), bs)

\* normalizeColor dividing by 256.
normalizeColorBy256(rgb) ==
  <<NumDiv(rgb[1], Num(256)), NumDiv(rgb[2], Num(256)),
    NumDiv(rgb[3], Num(256))>>

normalizeColor(rgb) ==
  LET rn == NumDiv(rgb[1], ChannelMax)
      gn == NumDiv(rgb[2], ChannelMax)
      bn == NumDiv(rgb[3], ChannelMax)
  IN  <<rn, gn, bn>>

\* toRGB.hex(color)
toRGB_hex(color) ==
  LET chunkLength == IF Len(color) = 4 THEN 1 ELSE 2
      r == parseInt(substr(color, 1, chunkLength), 16)
      g == parseInt(substr(color, 1 + chunkLength, chunkLength), 16)
      b == parseInt(substr(color, 1 + chunkLength * 2, chunkLength), 16)
  IN  <<r, g, b>>

\* An element-like object: only its style's two color properties are read.
Element(color, backgroundColor) ==
  [style |-> [color |-> color, backgroundColor |-> backgroundColor]]

\* The value of an argument that is not passed.
Undefined == [undefined |-> TRUE]

\* A default parameter that takes its background color from the text's
\* style.color.
defaultBackgroundFromColor(t, b) ==
  IF b = Undefined THEN Element(t.style.color, t.style.color) ELSE b

\* The default parameter background=text.
defaultBackground(t, b) == IF b = Undefined THEN t ELSE b

\* checkTextContrast whose result depends on the app argument.
checkTextContrastUsingApp(a, t, b) ==
  LET l1 == relativeLuminance(normalizeColor(toRGB_hex(t.style.color)))
      l2 == relativeLuminance(normalizeColor(
              toRGB_hex(defaultBackground(t, b).style.backgroundColor)))
  IN  IF a = "application" THEN contrastRatio(l1, l2) ELSE Num(1)

checkTextContrast(a, t, b) ==
  LET bg            == defaultBackground(t, b)
      foregroundRGB == toRGB_hex(t.style.color)
      backgroundRGB == toRGB_hex(bg.style.backgroundColor)
      normalColorFG == normalizeColor(foregroundRGB)
      normalColorBG == normalizeColor(backgroundRGB)
      l1            == relativeLuminance(normalColorFG)
      l2            == relativeLuminance(normalColorBG)
  IN  contrastRatio(l1, l2)

---------------------------------------------------------------------------
(* The calls a test makes *)

\* The result variable before a call has returned.
NoResult == [k |-> "none", s |-> 1, m |-> <<>>, e |-> 0]

NColors == 16

\* Valid hex colors, short and full, in the order in which a larger bound
\* takes them in: white, black and the gray #767676, two colors of the same
\* exact luminance (#001707 and #0300e2), shorthand colors with their
\* expanded forms, upper-case digits.
ColorOrder ==
  << Str(<<"#", "f", "f", "f">>),
     Str(<<"#", "0", "0", "0", "0", "0", "0">>),
     Str(<<"#", "7", "6", "7", "6", "7", "6">>),
     Str(<<"#", "f", "f", "f", "f", "f", "f">>),
     Str(<<"#", "0", "0", "0">>),
     Str(<<"#", "0", "0", "1", "7", "0", "7">>),
     Str(<<"#", "0", "3", "0", "0", "e", "2">>),
     Str(<<"#", "F", "F", "F", "F", "F", "F">>),
     Str(<<"#", "f", "0", "0">>),
     Str(<<"#", "f", "f", "0", "0", "0", "0">>),
     Str(<<"#", "f", "f", "f", "f", "f", "e">>),
     Str(<<"#", "0", "A", "0">>),
     Str(<<"#", "7", "f", "7", "f", "7", "f">>),
     Str(<<"#", "A", "b", "C">>),
     Str(<<"#", "a", "a", "b", "b", "c", "c">>),
     Str(<<"#", "0", "0", "a", "a", "0", "0">>),
     Str(<<"#", "8", "0", "8", "0", "8", "0">>),
     Str(<<"#", "1", "2", "3">>),
     Str(<<"#", "1", "1", "2", "2", "3", "3">>),
     Str(<<"#", "F", "f", "F", "f", "F", "f">>),
     Str(<<"#", "0", "0", "f">>),
     Str(<<"#", "f", "e", "f", "e", "f", "e">>) >>

Colors == {ColorOrder[i] : i \in 1..NColors}

AppValues == {"application", "other application"}

\* A color no call is asked to compare, held by a property no call reads.
OtherColor == Str(<<"#", "1", "2", "3">>)

\* The two strings a call with arguments (t, b) compares.
ForegroundOf(t) == t.style.color

BackgroundOf(t, b) == defaultBackground(t, b).style.backgroundColor

\* The arguments that differ from (a, t, b) in one argument and hold the
\* same two strings where a call reads them.
Rearranged(a, t, b) ==
  LET fg == ForegroundOf(t)
      bg == BackgroundOf(t, b)
      ts == {Element(fg, o) : o \in {<<>>, OtherColor, bg}}
      bs == {Undefined, t} \cup {Element(o, bg) : o \in {<<>>, OtherColor}}
  IN  {x \in ({<<a2, t, b>> : a2 \in AppValues}
               \cup {<<a, t2, b>> : t2 \in ts}
               \cup {<<a, t, b2>> : b2 \in bs}) :
         /\ x # <<a, t, b>>
         /\ ForegroundOf(x[2]) = fg
         /\ BackgroundOf(x[2], x[3]) = bg}

NoLuminance ==
  /\ lb = Num(0) /\ f1 = Num(0) /\ f2 = Num(0)
  /\ r1 = NoResult /\ r2 = NoResult

\* A first call on valid hex colors, with the background element passed or
\* left out.
Init ==
  /\ app = "application"
  /\ pc = "ready"
  /\ ratio = NoResult
  /\ \E fg \in Colors, bg \in Colors :
       \/ text = Element(fg, bg) /\ background = Undefined
       \/ text = Element(fg, <<>>) /\ background = Element(<<>>, bg)
  /\ NoLuminance

\* checkTextContrast(app, text, background) runs and returns.
Call ==
  /\ pc = "ready"
  /\ ratio' = checkTextContrast(app, text, background)
  /\ pc' = "done"
  /\ UNCHANGED <<app, text, background, lb, f1, f2, r1, r2>>

\* A second call whose arguments hold the same two strings.
CallAgain ==
  /\ pc = "done"
  /\ pc' = "recalled"
  /\ \E x \in Rearranged(app, text, background) :
       /\ app' = x[1]
       /\ text' = x[2]
       /\ background' = x[3]
       /\ ratio' = checkTextContrast(x[1], x[2], x[3])
  /\ UNCHANGED <<lb, f1, f2, r1, r2>>

\* A second call with the two colors exchanged.
CallSwapped ==
  /\ pc = "done"
  /\ pc' = "swapped"
  /\ LET t == Element(BackgroundOf(text, background), <<>>)
         b == Element(<<>>, ForegroundOf(text))
     IN  /\ text' = t
         /\ background' = b
         /\ ratio' = checkTextContrast(app, t, b)
  /\ UNCHANGED <<app, lb, f1, f2, r1, r2>>

Next == Call \/ CallAgain \/ CallSwapped

Spec == Init /\ [][Next]_vars

---------------------------------------------------------------------------
(* Calls on arbitrary strings *)

MaxLen == 7

Alphabet == {CharCode["#"], CharCode["f"], CharCode["g"]}

\* Strings that hold a sign, white space or a 0x prefix.
SignedStrings ==
  { Str(<<"#", "-", "f", "-", "f", "-", "f">>),
    Str(<<"#", "+", "f", "+", "f", "+", "f">>),
    Str(<<"#", " ", "f", " ", "f", " ", "f">>),
    Str(<<"#", "0", "x", "0", "x", "0", "x">>),
    Str(<<"#", "-", "f", "f", "f", "f", "f">>),
    Str(<<"#", "-", "-", "-">>),
    <<CharCode["#"], 12, CharCode["f"], 12, CharCode["f"], 12, CharCode["f"]>>,
    <<CharCode["#"], 160, CharCode["f"], 8232, CharCode["f"], 65279,
      CharCode["f"]>>,
    <<CharCode["#"], 11, CharCode["f"], 9, CharCode["f"], 10, CharCode["f"]>>,
    <<CharCode["#"], 12288, CharCode["f"], 5760, CharCode["f"], 8195,
      CharCode["f"]>> }

AnyStrings ==
  UNION {[1..n -> Alphabet] : n \in 0..MaxLen} \cup SignedStrings

AnyBackgrounds ==
  { Str(<<"#", "0", "0", "0">>),
    Str(<<"#", "f", "f", "f", "f", "f", "f">>),
    Str(<<"f", "g">>) }

\* A first call whose text color is any string.
InitAny ==
  /\ app = "application"
  /\ pc = "ready"
  /\ ratio = NoResult
  /\ \E s \in AnyStrings, b \in AnyBackgrounds :
       /\ text = Element(s, <<>>)
       /\ background = Element(<<>>, b)
  /\ NoLuminance

NextAny == Call \/ CallSwapped

SpecAny == InitAny /\ [][NextAny]_vars

---------------------------------------------------------------------------
(* contrastRatio on luminances *)

LumSteps == 5

\* The luminance of a color, as checkTextContrast computes it.
Luminance(color) == relativeLuminance(normalizeColor(toRGB_hex(color)))

LumColors ==
  { Str(<<"#", "f", "0", "0">>),
    Str(<<"#", "7", "6", "7", "6", "7", "6">>),
    Str(<<"#", "0", "0", "f", "f", "0", "0">>),
    Str(<<"#", "0", "0", "1", "7", "0", "7">>),
    Str(<<"#", "0", "3", "0", "0", "e", "2">>) }

\* Luminances in [0, 1]: an even grid, and those of a few colors, two of
\* them one unit in the last place apart.
LumInputs ==
  {Literal(i, LumSteps) : i \in 0..LumSteps} \cup {Luminance(c) : c \in LumColors}

InitLum ==
  /\ app = "application"
  /\ text = Element(<<>>, <<>>)
  /\ background = Undefined
  /\ pc = "luminances"
  /\ ratio = NoResult
  /\ lb \in LumInputs
  /\ f1 \in LumInputs
  /\ f2 \in LumInputs
  /\ r1 = NoResult
  /\ r2 = NoResult

\* contrastRatio(f1, lb) and contrastRatio(f2, lb) are computed.
MeasureContrast ==
  /\ pc = "luminances"
  /\ pc' = "measured"
  /\ r1' = contrastRatio(f1, lb)
  /\ r2' = contrastRatio(f2, lb)
  /\ UNCHANGED <<app, text, background, ratio, lb, f1, f2>>

NextLum == MeasureContrast

SpecLum == InitLum /\ [][NextLum]_vars

---------------------------------------------------------------------------
(* Properties *)

\* The two strings the last call compared.
Fg == text.style.color

Bg ==
  IF background = Undefined THEN text.style.backgroundColor
  ELSE background.style.backgroundColor

Returned == pc \in {"done", "recalled", "swapped"}

IsShortHex(c) ==
  Len(c) = 4 /\ c[1] = CharCode["#"] /\ \A i \in 2..4 : c[i] \in HexDigitChars

IsFullHex(c) ==
  Len(c) = 7 /\ c[1] = CharCode["#"] /\ \A i \in 2..7 : c[i] \in HexDigitChars

IsValidHex(c) == IsShortHex(c) \/ IsFullHex(c)

IsWhite(c) ==
  IsFullHex(c) /\ \A i \in 2..7 : c[i] \in {CharCode["f"], CharCode["F"]}

IsBlack(c) == IsFullHex(c) /\ \A i \in 2..7 : c[i] = CharCode["0"]

\* #aabbcc for #abc
Expanded(c) == <<c[1], c[2], c[2], c[3], c[3], c[4], c[4]>>

\* Whether x rounds to h hundredths.
RoundsToHundredths(x, h) ==
  /\ ~NumLess(x, Literal(10 * h - 5, 1000))
  /\ NumLess(x, Literal(10 * h + 5, 1000))

\* C1: for valid hex colors as text color and background color, the value
\* checkTextContrast returns is a number r with 1 <= r <= 21.
C1_Range ==
  (Returned /\ IsValidHex(Fg) /\ IsValidHex(Bg))
    => /\ IsNum(ratio)
       /\ ~NumLess(ratio, Num(1))
       /\ ~NumLess(Num(21), ratio)

C1_Witness ==
  /\ Returned /\ IsShortHex(Fg) /\ IsFullHex(Bg)
  /\ NumLess(Num(1), ratio) /\ NumLess(ratio, Num(21))

\* C2: a shorthand color #abc gives the same ratio as #aabbcc on the same
\* side of the comparison, and #fff on #000000 gives 21.
C2_ShorthandEquivalence ==
  Returned =>
    /\ (IsShortHex(Fg) /\ IsValidHex(Bg))
         => ratio = checkTextContrast(app, Element(Expanded(Fg), <<>>),
                                      Element(<<>>, Bg))
    /\ (IsValidHex(Fg) /\ IsShortHex(Bg))
         => ratio = checkTextContrast(app, Element(Fg, <<>>),
                                      Element(<<>>, Expanded(Bg)))
    /\ (Fg = Str(<<"#", "f", "f", "f">>) /\ IsBlack(Bg)) => ratio = Num(21)

\* C3: #767676 on #ffffff gives a ratio that rounds to 4.54 and is at
\* least 4.5.
C3_MinimumPassingGray ==
  (Returned /\ Fg = Str(<<"#", "7", "6", "7", "6", "7", "6">>) /\ IsWhite(Bg))
    => /\ IsNum(ratio)
       /\ RoundsToHundredths(ratio, 454)
       /\ ~NumLess(ratio, Literal(45, 10))

\* C4: among full-form colors the ratio is 21 for black against white, in
\* either order, and for no other pair.
C4_Extremes ==
  (Returned /\ IsFullHex(Fg) /\ IsFullHex(Bg))
    => (ratio = Num(21)
          <=> \/ IsBlack(Fg) /\ IsWhite(Bg)
              \/ IsWhite(Fg) /\ IsBlack(Bg))

C4_Witness ==
  pc = "swapped" /\ IsBlack(Fg) /\ IsWhite(Bg) /\ ratio = Num(21)

\* C5: a valid hex color against itself gives exactly 1.
C5_Identity ==
  (Returned /\ IsValidHex(Fg) /\ Fg = Bg) => ratio = Num(1)

C5_Witness ==
  /\ Returned /\ Fg = Bg /\ ratio = Num(1)
  /\ Fg = Str(<<"#", "7", "6", "7", "6", "7", "6">>)

\* C6: with the background argument left out, the call returns what the
\* call with the text element as both arguments returns, the foreground
\* read from style.color and the background from style.backgroundColor.
C6_DefaultBackground ==
  (/\ Returned /\ background = Undefined
   /\ IsValidHex(text.style.color) /\ IsValidHex(text.style.backgroundColor))
    => /\ ratio = checkTextContrast(app, text, text)
       /\ ratio = contrastRatio(Luminance(text.style.color),
                                Luminance(text.style.backgroundColor))

C6_Witness ==
  /\ Returned /\ background = Undefined
  /\ IsValidHex(text.style.color) /\ IsValidHex(text.style.backgroundColor)
  /\ text.style.color # text.style.backgroundColor
  /\ NumLess(Num(1), ratio)

\* The three channel substrings toRGB.hex hands to parseInt.
ChannelStrings(c) ==
  {substr(c, 1 + i * (IF Len(c) = 4 THEN 1 ELSE 2),
          IF Len(c) = 4 THEN 1 ELSE 2) : i \in 0..2}

\* Whether a channel substring (of at most two characters) gives parseInt
\* a hex digit to read: it starts with one and is not 0x, or it is a sign
\* or a white space followed by one.
HasLeadingDigit(chunk) ==
  \/ /\ Len(chunk) >= 1
     /\ chunk[1] \in HexDigitChars
     /\ ~(/\ Len(chunk) = 2 /\ chunk[1] = CharCode["0"]
          /\ chunk[2] \in {CharCode["x"], CharCode["X"]})
  \/ /\ Len(chunk) = 2
     /\ chunk[1] \in WhiteSpaceChars \cup {CharCode["+"], CharCode["-"]}
     /\ chunk[2] \in HexDigitChars

AllChannelsRead(c) == \A chunk \in ChannelStrings(c) : HasLeadingDigit(chunk)

\* C7 as stated: a string that is not # and 3 or 6 hex digits makes the
\* call return NaN, never a number.
C7_MalformedGivesNaN ==
  (Returned /\ (~IsValidHex(Fg) \/ ~IsValidHex(Bg))) => IsNaN(ratio)

\* C7: for any two strings the call returns, and returns NaN exactly when
\* some channel substring of one of them gives parseInt no hex digit to
\* read; otherwise it returns a finite number, also for malformed strings.
C7_NaNExactlyWhenAChannelHasNoDigit ==
  Returned =>
    /\ IsNaN(ratio) <=> ~(AllChannelsRead(Fg) /\ AllChannelsRead(Bg))
    /\ ~IsNaN(ratio) => IsNum(ratio)

C7_Witness ==
  /\ Returned /\ IsValidHex(Bg) /\ IsNum(ratio)
  /\ Len(Fg) = 6 /\ Fg[1] = CharCode["f"] /\ Fg[3] = CharCode["g"]

\* C8: a call changes none of its arguments, and two calls in a row whose
\* arguments hold the same two strings return the same value, whatever the
\* app argument, the other properties and the elements' identity are.
C8_FunctionOfTheTwoStrings ==
  [][/\ (pc = "ready" /\ pc' = "done")
          => (app' = app /\ text' = text /\ background' = background)
     /\ (Returned /\ Returned' /\ Fg' = Fg /\ Bg' = Bg) => ratio' = ratio]_vars

C8_Witness ==
  /\ pc = "recalled" /\ app = "other application"
  /\ IsValidHex(Fg) /\ IsValidHex(Bg)
  /\ NumLess(Num(1), ratio)

\* contrastRatio is symmetric at (x, y) and is (max + 0.05) / (min + 0.05).
SymmetricAt(x, y) ==
  /\ contrastRatio(x, y) = contrastRatio(y, x)
  /\ contrastRatio(x, y) =
       IF NumLess(x, y)
       THEN NumDiv(NumAdd(y, Offset), NumAdd(x, Offset))
       ELSE NumDiv(NumAdd(x, Offset), NumAdd(y, Offset))
  /\ ratio = contrastRatio(y, x)

\* C9: on the luminances of two valid hex colors contrastRatio gives the
\* same value in either order, (max + 0.05) / (min + 0.05), so the call
\* with the two colors exchanged returns the same ratio.
C9_Symmetry ==
  (Returned /\ IsValidHex(Fg) /\ IsValidHex(Bg))
    => /\ SymmetricAt(Luminance(Fg), Luminance(Bg))
       /\ ratio = checkTextContrast(app, Element(Bg, <<>>), Element(<<>>, Fg))

C9_Witness ==
  /\ pc = "swapped" /\ IsValidHex(Fg) /\ IsValidHex(Bg)
  /\ NumLess(Luminance(Fg), Luminance(Bg))
  /\ NumLess(Num(1), ratio)

\* f1 and f2 lie on the same side of lb, f2 further from it than f1.
FurtherAbove == ~NumLess(f1, lb) /\ NumLess(f1, f2)

FurtherBelow == ~NumLess(lb, f1) /\ NumLess(f2, f1)

\* C10 as stated: with the background luminance lb fixed, a foreground
\* luminance further from lb on the same side gives a strictly larger
\* ratio.
C10_Monotonicity ==
  (pc = "measured" /\ (FurtherAbove \/ FurtherBelow)) => NumLess(r1, r2)

\* C10: with the background luminance lb fixed, a foreground luminance
\* further from lb on the same side never gives a smaller ratio; two
\* luminances next to each other can give the same ratio.
C10_NeverDecreasing ==
  (pc = "measured" /\ (FurtherAbove \/ FurtherBelow)) => ~NumLess(r2, r1)

C10_Witness ==
  /\ pc = "measured" /\ FurtherBelow /\ NumLess(f1, lb)
  /\ NumLess(Num(0), f2) /\ NumLess(r1, r2)

===========================================================================
